---- MODULE Spec2Model ----
(***************************************************************************)
(* Model of the quiz scheduling and state-transition engine of             *)
(* claude-quiz-hook: src/src/scheduler.py (schedule records, the project   *)
(* state store, the due-quiz resolver, the lifecycle operations) and the   *)
(* commands of src/src/quiz-cli.py and scheduler.py that drive them.       *)
(*                                                                         *)
(* Time is the local wall clock in whole hours since a Monday 00:00.       *)
(***************************************************************************)
EXTENDS Integers, Sequences, FiniteSets, TLC

\* ------------------------------------------------------------------ bounds
MaxTime == 4
MaxPending == 3
MaxCompleted == 2
MaxCliPending == 2
MaxRacePending == 2
MaxRaceCompleted == 1
MaxResults == 3
MaxOtherOps == 1
MaxSchedHour == 167
MaxLoggers == 3
MaxProgressPending == 2
MaxProgressCompleted == 3
MaxLogCalls == 1

\* --------------------------------------------------------------- constants
SameDayDelayHours == 4
NextDayHour == 9
WeeklyDay == 4
WeeklyHour == 9
MinSessionMinutes == 15
MinActivities == 5
TickHours == 4
HoursPerDay == 24
DaysPerWeek == 7

\* ------------------------------------------------------------------ inputs
SessionIds == {"s1", "s2"}
ScheduleType == {"same_day", "next_day", "weekly", "on_demand"}
\* the schedule types, quiz results and result documents the library-level
\* harness passes
ApiResults == {[score |-> 50, total |-> 2]}
ApiTypes == {"on_demand", "same_day"}
ApiResultDocs ==
    {[questions |-> <<[type |-> "debugging", correct |-> TRUE, tags |-> <<"docker">>]>>],
     [questions |-> <<[type |-> "debugging", correct |-> FALSE, tags |-> <<>>]>>]}

\* the result documents the aggregation harness merges: several questions,
\* a tag that is also a type, a question without tags, one without type, a
\* document without questions
ScoreDocs ==
    {[questions |-> <<[type |-> "debugging", correct |-> TRUE, tags |-> <<"docker">>],
                      [type |-> "concept", correct |-> FALSE,
                       tags |-> <<"docker", "debugging">>]>>],
     [questions |-> <<[type |-> "debugging", correct |-> FALSE]>>],
     [questions |-> <<[correct |-> TRUE, tags |-> <<"docker">>]>>],
     [session_id |-> "s1"]}

\* the configurations and minutes of the hour the scheduling harness passes
Configs ==
    {[same_day_delay_hours |-> SameDayDelayHours, next_day_hour |-> NextDayHour,
      weekly_day |-> WeeklyDay, min_session_minutes |-> MinSessionMinutes,
      min_activities |-> MinActivities]}
    \cup {[next_day_hour |-> h] : h \in 0..23}
    \cup {[weekly_day |-> d] : d \in 0..6}
Minutes == {0, 30}

\* the session summaries and configurations the eligibility harness passes:
\* durations and activity counts around the thresholds, a summary without
\* duration_minutes, one without stats, one whose stats lack total_activities
SummaryDurations == {0, MinSessionMinutes - 1, MinSessionMinutes, MinSessionMinutes + 1}
SummaryActivities == {0, MinActivities - 1, MinActivities, MinActivities + 1}
SummaryStats ==
    {[file_writes |-> 1]}
    \cup {[file_writes |-> 1, total_activities |-> a] : a \in SummaryActivities}
Summaries ==
    {[session_id |-> "s1"]}
    \cup {[session_id |-> "s1", duration_minutes |-> d] : d \in SummaryDurations}
    \cup {[session_id |-> "s1", stats |-> st] : st \in SummaryStats}
    \cup {[session_id |-> "s1", duration_minutes |-> d, stats |-> st] :
              d \in SummaryDurations, st \in SummaryStats}
\* type strings a persisted schedule record may carry that are not values of
\* ScheduleType: another word, a value in the wrong case, the empty string
UnknownTypes == {"monthly", "ON_DEMAND", ""}
EligibilityConfigs ==
    {[same_day_delay_hours |-> SameDayDelayHours, next_day_hour |-> NextDayHour,
      weekly_day |-> WeeklyDay, min_session_minutes |-> MinSessionMinutes,
      min_activities |-> MinActivities],
     [next_day_hour |-> NextDayHour]}

\* the hook processes that may log to one session log at the same time
Loggers == 1..MaxLoggers
\* the command-line invocations that may run at the same time on one project
Procs == {1, 2}
\* sessions whose summary file loads and yields questions
LoadableSummaries == {"s1"}
\* the summary of each session, as create_session_summary writes it: s1 was a
\* long session, s2 a short one
SessionSummary(sid) ==
    IF sid = "s1"
    THEN [session_id |-> sid, duration_minutes |-> 2 * MinSessionMinutes,
          stats |-> [total_activities |-> 2 * MinActivities, file_writes |-> 1]]
    ELSE [session_id |-> sid, duration_minutes |-> MinSessionMinutes - 1,
          stats |-> [total_activities |-> MinActivities - 1, file_writes |-> 1]]
\* what run_interactive_quiz may return: per-question correct flags
QuizOutcomes == {<<>>, <<TRUE, FALSE>>}

VARIABLES
    now,        \* the wall clock, datetime.now()
    state,      \* library level: the ProjectState dict the caller holds
    call,       \* library level: the last operation applied to state
    results,    \* library level: the result documents merged into state
    file,       \* <project>/.claude/quiz-state.json
    quizFiles,  \* sessions with a quiz file in <project>/.claude/quizzes
    pc,         \* per invocation: where it is
    cmd,        \* per invocation: the command
    pstate,     \* per invocation: the state dict it loaded and works on
    sess,       \* per invocation: its session_id
    raced,      \* history: its window has overlapped another window
    durable,    \* history: the last complete document the file held
    lastSave,   \* history: who completed the last save, with which command
    missed,     \* history: sessions another invocation added in its window
    logFile,    \* the session log <project>/.claude/sessions/<date>-<id>.json
    tmpFile,    \* log_path.with_suffix(".tmp")
    lock,       \* the holder of the flock on log_path.with_suffix(".lock"), or 0
    lpc,        \* per logging process: where it is in log_activity
    ldata,      \* per logging process: the log document it read and extends
    lcount,     \* per logging process: the calls of log_activity it completed
    logStart    \* history: the log file before the first call

apiVars == <<state, call, results>>
cliVars == <<file, quizFiles, pc, cmd, pstate, sess, raced, durable, lastSave,
             missed>>
logVars == <<logFile, tmpFile, lock, lpc, ldata, lcount, logStart>>
vars == <<now, state, call, results, file, quizFiles, pc, cmd, pstate, sess, raced,
          durable, lastSave, missed, logVars>>

\* ---------------------------------------------------------- schedule record
\* datetime.isoformat() / datetime.fromisoformat(): the persisted form of a
\* timestamp is its calendar date and hour of day, not the datetime itself.
IsoFormat(t) == [date |-> t \div HoursPerDay, hour |-> t % HoursPerDay]

FromIsoFormat(s) == s.date * HoursPerDay + s.hour

Weekday(t) == (t \div HoursPerDay) % DaysPerWeek

SummaryPath(sid) == <<"summaries", sid>>

DEFAULT_CONFIG ==
    [same_day_delay_hours |-> SameDayDelayHours,
     next_day_hour |-> NextDayHour,
     weekly_day |-> WeeklyDay,
     min_session_minutes |-> MinSessionMinutes,
     min_activities |-> MinActivities]

\* config.get(key, default)
ConfigGet(config, key, default) ==
    IF key \in DOMAIN config THEN config[key] ELSE default

\* faulty variant: a session exactly at a threshold is not eligible
should_schedule_above(summary, config) ==
    LET duration == IF "duration_minutes" \in DOMAIN summary
                    THEN summary.duration_minutes ELSE 0
        total_activities ==
            IF "stats" \in DOMAIN summary /\ "total_activities" \in DOMAIN summary.stats
            THEN summary.stats.total_activities ELSE 0
    IN  IF duration <= ConfigGet(config, "min_session_minutes", MinSessionMinutes)
        THEN FALSE
        ELSE IF total_activities <= ConfigGet(config, "min_activities", MinActivities)
             THEN FALSE
             ELSE TRUE

\* should_schedule_quiz: summary.get("duration_minutes", 0) and
\* summary.get("stats", {}).get("total_activities", 0) against the thresholds
should_schedule_quiz(summary, config) ==
    LET duration == IF "duration_minutes" \in DOMAIN summary
                    THEN summary.duration_minutes ELSE 0
        total_activities ==
            IF "stats" \in DOMAIN summary /\ "total_activities" \in DOMAIN summary.stats
            THEN summary.stats.total_activities ELSE 0
    IN  IF duration < ConfigGet(config, "min_session_minutes", MinSessionMinutes)
        THEN FALSE
        ELSE IF total_activities < ConfigGet(config, "min_activities", MinActivities)
             THEN FALSE
             ELSE TRUE

\* the start of the calendar day that is days after the day of t
DayStart(t, days) == ((t + days * HoursPerDay) \div HoursPerDay) * HoursPerDay

\* faulty variant: a weekly quiz created on the target weekday is scheduled
\* for that same day
ScheduledSameWeekday(config, schedule_type, t) ==
    CASE schedule_type = "same_day" ->
            t + ConfigGet(config, "same_day_delay_hours", SameDayDelayHours)
      [] schedule_type = "next_day" ->
            DayStart(t, 1) + ConfigGet(config, "next_day_hour", NextDayHour)
      [] schedule_type = "weekly" ->
            LET days_ahead == ConfigGet(config, "weekly_day", WeeklyDay) - Weekday(t)
                ahead == IF days_ahead < 0 THEN days_ahead + DaysPerWeek ELSE days_ahead
            IN  DayStart(t, ahead) + WeeklyHour
      [] OTHER -> t

\* faulty variant: a next-day quiz is scheduled for next_day_hour of today
ScheduledTodayAtHour(config, schedule_type, t) ==
    CASE schedule_type = "same_day" ->
            t + ConfigGet(config, "same_day_delay_hours", SameDayDelayHours)
      [] schedule_type = "next_day" ->
            DayStart(t, 0) + ConfigGet(config, "next_day_hour", NextDayHour)
      [] schedule_type = "weekly" ->
            LET days_ahead == ConfigGet(config, "weekly_day", WeeklyDay) - Weekday(t)
                ahead == IF days_ahead <= 0 THEN days_ahead + DaysPerWeek ELSE days_ahead
            IN  DayStart(t, ahead) + WeeklyHour
      [] OTHER -> t

\* schedule_quiz: scheduled_for, in whole hours, under a configuration
ScheduledWith(config, schedule_type, t) ==
    CASE schedule_type = "same_day" ->
            t + ConfigGet(config, "same_day_delay_hours", SameDayDelayHours)
      [] schedule_type = "next_day" ->
            DayStart(t, 1) + ConfigGet(config, "next_day_hour", NextDayHour)
      [] schedule_type = "weekly" ->
            LET days_ahead == ConfigGet(config, "weekly_day", WeeklyDay) - Weekday(t)
                ahead == IF days_ahead <= 0 THEN days_ahead + DaysPerWeek ELSE days_ahead
            IN  DayStart(t, ahead) + WeeklyHour
      [] OTHER -> t

\* schedule_quiz: the minute of scheduled_for; replace(minute=0, second=0,
\* microsecond=0) for next_day and weekly, the minute of now otherwise
ScheduledMinute(schedule_type, minute) ==
    IF schedule_type \in {"next_day", "weekly"} THEN 0 ELSE minute

ScheduledFor(schedule_type, t) == ScheduledWith(DEFAULT_CONFIG, schedule_type, t)

\* faulty variant: an on-demand quiz is delayed like a same-day quiz
schedule_quiz_delayed(session_id, schedule_type, summary_path, t) ==
    [session_id |-> session_id,
     schedule_type |-> schedule_type,
     scheduled_for |-> IF schedule_type = "on_demand" THEN t + SameDayDelayHours
                       ELSE ScheduledFor(schedule_type, t),
     summary_path |-> summary_path,
     created_at |-> t]

schedule_quiz(session_id, schedule_type, summary_path, t) ==
    [session_id |-> session_id,
     schedule_type |-> schedule_type,
     scheduled_for |-> ScheduledFor(schedule_type, t),
     summary_path |-> summary_path,
     created_at |-> t]

to_dict(schedule) ==
    [session_id |-> schedule.session_id,
     type |-> schedule.schedule_type,
     scheduled_for |-> IsoFormat(schedule.scheduled_for),
     summary_path |-> schedule.summary_path,
     created_at |-> IsoFormat(schedule.created_at)]

\* what from_dict yields when it raises
NoSchedule ==
    [session_id |-> "", schedule_type |-> "", scheduled_for |-> 0,
     summary_path |-> <<>>, created_at |-> 0]

\* faulty variant: an unknown type string is read as on_demand
from_dict_defaulting(data, t) ==
    IF {"session_id", "type", "scheduled_for", "summary_path"} \subseteq DOMAIN data
    THEN [raised |-> FALSE, error |-> "",
          schedule |-> [session_id |-> data.session_id,
                        schedule_type |-> IF data.type \in ScheduleType
                                          THEN data.type ELSE "on_demand",
                        scheduled_for |-> FromIsoFormat(data.scheduled_for),
                        summary_path |-> data.summary_path,
                        created_at |-> IF "created_at" \in DOMAIN data
                                       THEN FromIsoFormat(data.created_at) ELSE t]]
    ELSE [raised |-> TRUE, error |-> "KeyError", schedule |-> NoSchedule]

\* QuizSchedule.from_dict at time t: data["session_id"], ScheduleType(data["type"]),
\* fromisoformat(data["scheduled_for"]), data["summary_path"] in this order,
\* created_at defaulting to now
from_dict(data, t) ==
    CASE "session_id" \notin DOMAIN data \/ "type" \notin DOMAIN data ->
            [raised |-> TRUE, error |-> "KeyError", schedule |-> NoSchedule]
      [] "session_id" \in DOMAIN data /\ "type" \in DOMAIN data
            /\ data.type \notin ScheduleType ->
            [raised |-> TRUE, error |-> "ValueError", schedule |-> NoSchedule]
      [] "session_id" \in DOMAIN data /\ "type" \in DOMAIN data
            /\ data.type \in ScheduleType
            /\ ~({"scheduled_for", "summary_path"} \subseteq DOMAIN data) ->
            [raised |-> TRUE, error |-> "KeyError", schedule |-> NoSchedule]
      [] OTHER ->
            [raised |-> FALSE, error |-> "",
             schedule |-> [session_id |-> data.session_id,
                           schedule_type |-> data.type,
                           scheduled_for |-> FromIsoFormat(data.scheduled_for),
                           summary_path |-> data.summary_path,
                           created_at |-> IF "created_at" \in DOMAIN data
                                          THEN FromIsoFormat(data.created_at)
                                          ELSE t]]

\* ------------------------------------------------------------ project state
DefaultState ==
    [project |-> "proj", sessions |-> <<>>,
     pending_quizzes |-> <<>>, completed_quizzes |-> <<>>]

\* A JSON document that is not an object (a list, a string, a number, null).
NonObject == [non_object |-> TRUE]

IsObject(v) == "non_object" \notin DOMAIN v

\* the doc field of a file that holds no JSON document
NoDoc == <<>>
NoSave == [by |-> 0, cmd |-> "none", raced |-> FALSE]

\* state.get("pending_quizzes", [])
GetPending(st) ==
    IF "pending_quizzes" \in DOMAIN st THEN st.pending_quizzes ELSE <<>>

RECURSIVE DueLoop(_, _, _)
DueLoop(quizzes, t, due) ==
    IF quizzes = <<>> THEN due
    ELSE LET quiz == Head(quizzes)
         IN  DueLoop(Tail(quizzes), t,
                     IF FromIsoFormat(quiz.scheduled_for) <= t
                     THEN Append(due, quiz) ELSE due)

\* faulty variant: an entry scheduled for exactly now is not yet due
RECURSIVE DueLoopStrict(_, _, _)
DueLoopStrict(quizzes, t, due) ==
    IF quizzes = <<>> THEN due
    ELSE DueLoopStrict(Tail(quizzes), t,
                       IF FromIsoFormat(Head(quizzes).scheduled_for) < t
                       THEN Append(due, Head(quizzes)) ELSE due)

get_due_strict(st, t) == DueLoopStrict(GetPending(st), t, <<>>)

\* faulty variant: an entry expires TickHours after it became due
RECURSIVE DueLoopExpiring(_, _, _)
DueLoopExpiring(quizzes, t, due) ==
    IF quizzes = <<>> THEN due
    ELSE DueLoopExpiring(Tail(quizzes), t,
                         IF /\ FromIsoFormat(Head(quizzes).scheduled_for) <= t
                            /\ t < FromIsoFormat(Head(quizzes).scheduled_for) + TickHours
                         THEN Append(due, Head(quizzes)) ELSE due)

get_due_unexpired(st, t) == DueLoopExpiring(GetPending(st), t, <<>>)

get_due_quizzes(st, t) == DueLoop(GetPending(st), t, <<>>)

\* faulty variant: the pending entries of the session are rescheduled to the
\* new entry's time
add_reschedules(st, schedule) ==
    [st EXCEPT !.pending_quizzes =
        Append([i \in 1..Len(@) |->
                   IF @[i].session_id = schedule.session_id
                   THEN [@[i] EXCEPT !.scheduled_for = IsoFormat(schedule.scheduled_for)]
                   ELSE @[i]],
               to_dict(schedule))]

add_pending_quiz(st, schedule) ==
    [st EXCEPT !.pending_quizzes = Append(@, to_dict(schedule))]

RECURSIVE RemoveSession(_, _)
RemoveSession(quizzes, session_id) ==
    IF quizzes = <<>> THEN <<>>
    ELSE IF Head(quizzes).session_id # session_id
         THEN <<Head(quizzes)>> \o RemoveSession(Tail(quizzes), session_id)
         ELSE RemoveSession(Tail(quizzes), session_id)

\* faulty variant: only the first pending entry of the session is removed
RECURSIVE RemoveFirst(_, _)
RemoveFirst(quizzes, session_id) ==
    IF quizzes = <<>> THEN <<>>
    ELSE IF Head(quizzes).session_id # session_id
         THEN <<Head(quizzes)>> \o RemoveFirst(Tail(quizzes), session_id)
         ELSE Tail(quizzes)

mark_first_only(st, session_id, result, t) ==
    [st EXCEPT !.pending_quizzes = RemoveFirst(@, session_id),
               !.completed_quizzes =
                   Append(@, [session_id |-> session_id,
                              completed_at |-> IsoFormat(t),
                              result |-> result])]

\* faulty variant: the completion history is replaced by the new record
mark_resets_history(st, session_id, result, t) ==
    [st EXCEPT !.pending_quizzes = RemoveSession(@, session_id),
               !.completed_quizzes =
                   <<[session_id |-> session_id,
                      completed_at |-> IsoFormat(t),
                      result |-> result]>>]

mark_quiz_completed(st, session_id, result, t) ==
    [st EXCEPT !.pending_quizzes = RemoveSession(@, session_id),
               !.completed_quizzes =
                   Append(@, [session_id |-> session_id,
                              completed_at |-> IsoFormat(t),
                              result |-> result])]

\* --------------------------------------------------------- result aggregation
\* question.get(key, default)
QGet(question, key, default) ==
    IF key \in DOMAIN question THEN question[key] ELSE default

\* faulty variant: total counts the wrong answers only
BumpCountsWrong(scores, key, correct) ==
    [k \in DOMAIN scores \cup {key} |->
        LET old == IF k \in DOMAIN scores THEN scores[k]
                   ELSE [correct |-> 0, total |-> 0]
        IN  IF k = key
            THEN [correct |-> IF correct THEN old.correct + 1 ELSE old.correct,
                  total |-> IF correct THEN old.total ELSE old.total + 1]
            ELSE old]

\* scores[key] created lazily, total += 1, correct += 1 if correct
Bump(scores, key, correct) ==
    [k \in DOMAIN scores \cup {key} |->
        LET old == IF k \in DOMAIN scores THEN scores[k]
                   ELSE [correct |-> 0, total |-> 0]
        IN  IF k = key
            THEN [correct |-> IF correct THEN old.correct + 1 ELSE old.correct,
                  total |-> old.total + 1]
            ELSE old]

RECURSIVE BumpTags(_, _, _)
BumpTags(scores, tags, correct) ==
    IF tags = <<>> THEN scores
    ELSE BumpTags(Bump(scores, Head(tags), correct), Tail(tags), correct)

RECURSIVE MergeQuestions(_, _)
MergeQuestions(scores, questions) ==
    IF questions = <<>> THEN scores
    ELSE LET question == Head(questions)
             qtype == QGet(question, "type", "unknown")
             correct == QGet(question, "correct", FALSE)
             tags == QGet(question, "tags", <<>>)
         IN  MergeQuestions(BumpTags(Bump(scores, qtype, correct), tags, correct),
                            Tail(questions))

TopicScores(st) ==
    IF "topic_scores" \in DOMAIN st THEN st.topic_scores ELSE <<>>

\* faulty variant: only the type bucket of a question is counted, not its tags
RECURSIVE MergeTypesOnly(_, _)
MergeTypesOnly(scores, questions) ==
    IF questions = <<>> THEN scores
    ELSE MergeTypesOnly(Bump(scores, QGet(Head(questions), "type", "unknown"),
                             QGet(Head(questions), "correct", FALSE)),
                        Tail(questions))

merge_types_only(st, result) ==
    [k \in DOMAIN st \cup {"topic_scores"} |->
        IF k = "topic_scores"
        THEN MergeTypesOnly(TopicScores(st), QGet(result, "questions", <<>>))
        ELSE st[k]]

\* faulty variant: topic_scores is recomputed from this result alone
merge_recounts(st, result) ==
    [k \in DOMAIN st \cup {"topic_scores"} |->
        IF k = "topic_scores"
        THEN MergeQuestions(<<>>, QGet(result, "questions", <<>>))
        ELSE st[k]]

merge_result_into_state(st, result) ==
    LET merged == MergeQuestions(TopicScores(st), QGet(result, "questions", <<>>))
    IN  [k \in DOMAIN st \cup {"topic_scores"} |->
            IF k = "topic_scores" THEN merged ELSE st[k]]

\* calculate_topic_scores: the loop over the tags of one question
RECURSIVE CalcTags(_, _, _)
CalcTags(scores, tags, correct) ==
    IF tags = <<>> THEN scores
    ELSE CalcTags(Bump(scores, Head(tags), correct), Tail(tags), correct)

\* calculate_topic_scores: the loop over the questions of one result
RECURSIVE CalcQuestions(_, _)
CalcQuestions(scores, questions) ==
    IF questions = <<>> THEN scores
    ELSE LET question == Head(questions)
             qtype == QGet(question, "type", "unknown")
             correct == QGet(question, "correct", FALSE)
             tags == QGet(question, "tags", <<>>)
         IN  CalcQuestions(CalcTags(Bump(scores, qtype, correct), tags, correct),
                           Tail(questions))

\* calculate_topic_scores: the loop over the results
RECURSIVE CalcResults(_, _)
CalcResults(scores, rs) ==
    IF rs = <<>> THEN scores
    ELSE CalcResults(CalcQuestions(scores, QGet(Head(rs), "questions", <<>>)),
                     Tail(rs))

\* faulty variant: a question without a type is left out of the scores
RECURSIVE CalcTypedOnly(_, _)
CalcTypedOnly(scores, rs) ==
    IF rs = <<>> THEN scores
    ELSE CalcTypedOnly(
             CalcQuestions(scores,
                 SelectSeq(QGet(Head(rs), "questions", <<>>),
                           LAMBDA q : "type" \in DOMAIN q)),
             Tail(rs))

calculate_typed_only(rs) == CalcTypedOnly(<<>>, rs)

calculate_topic_scores(rs) == CalcResults(<<>>, rs)

\* ------------------------------------------------------- JSON text of a state
\* json.dump writes the state dict as JSON text and json.load parses the text
\* back.  The text is modelled as its sequence of tokens: punctuation, object
\* keys, strings and numbers.  Timestamps and paths are JSON strings.
Tok(kind, val) == [kind |-> kind, val |-> val]

\* the keys whose values are numbers; every other scalar is a string
NumberKeys == {"score", "total", "correct"}

EntryKeys == <<"session_id", "type", "scheduled_for", "summary_path", "created_at">>

\* the members of obj named in keys, in that order, each a key and a scalar
RECURSIVE DumpMembers(_, _)
DumpMembers(obj, keys) ==
    IF keys = <<>> THEN <<>>
    ELSE LET k == Head(keys)
         IN  (IF k \in DOMAIN obj
              THEN <<Tok("key", k),
                     Tok(IF k \in NumberKeys THEN "number" ELSE "string", obj[k])>>
              ELSE <<>>)
             \o DumpMembers(obj, Tail(keys))

DumpFlat(obj, keys) == <<Tok("{", "")>> \o DumpMembers(obj, keys) \o <<Tok("}", "")>>

RECURSIVE DumpEntries(_)
DumpEntries(quizzes) ==
    IF quizzes = <<>> THEN <<>>
    ELSE DumpFlat(Head(quizzes), EntryKeys) \o DumpEntries(Tail(quizzes))

DumpRecord(r) ==
    <<Tok("{", "")>>
    \o DumpMembers(r, <<"session_id", "completed_at">>)
    \o <<Tok("key", "result")>> \o DumpFlat(r.result, <<"score", "total">>)
    \o <<Tok("}", "")>>

RECURSIVE DumpRecords(_)
DumpRecords(records) ==
    IF records = <<>> THEN <<>>
    ELSE DumpRecord(Head(records)) \o DumpRecords(Tail(records))

RECURSIVE DumpBuckets(_, _)
DumpBuckets(scores, keys) ==
    IF keys = {} THEN <<>>
    ELSE LET k == CHOOSE x \in keys : TRUE
         IN  <<Tok("key", k)>> \o DumpFlat(scores[k], <<"correct", "total">>)
             \o DumpBuckets(scores, keys \ {k})

DumpCore(st) ==
    <<Tok("{", "")>>
    \o DumpMembers(st, <<"project">>)
    \o <<Tok("key", "sessions"), Tok("[", ""), Tok("]", "")>>
    \o <<Tok("key", "pending_quizzes"), Tok("[", "")>>
    \o DumpEntries(st.pending_quizzes) \o <<Tok("]", "")>>
    \o <<Tok("key", "completed_quizzes"), Tok("[", "")>>
    \o DumpRecords(st.completed_quizzes) \o <<Tok("]", "")>>

\* faulty variant: the topic_scores of the state are not written
json_dump_without_scores(st) == DumpCore(st) \o <<Tok("}", "")>>

\* json.dump(state, f, indent=2)
json_dump(st) ==
    DumpCore(st)
    \o (IF "topic_scores" \in DOMAIN st
        THEN <<Tok("key", "topic_scores"), Tok("{", "")>>
             \o DumpBuckets(st.topic_scores, DOMAIN st.topic_scores)
             \o <<Tok("}", "")>>
        ELSE <<>>)
    \o <<Tok("}", "")>>

\* json.load: the value that starts at token i, and the index after it
RECURSIVE ParseValue(_, _)
RECURSIVE ParseElems(_, _, _)
RECURSIVE ParseMembers(_, _, _)
ParseValue(toks, i) ==
    CASE toks[i].kind = "[" -> ParseElems(toks, i + 1, <<>>)
      [] toks[i].kind = "{" -> ParseMembers(toks, i + 1, <<>>)
      [] OTHER -> [val |-> toks[i].val, next |-> i + 1]

ParseElems(toks, i, acc) ==
    IF toks[i].kind = "]" THEN [val |-> acc, next |-> i + 1]
    ELSE LET e == ParseValue(toks, i)
         IN  ParseElems(toks, e.next, Append(acc, e.val))

ParseMembers(toks, i, acc) ==
    IF toks[i].kind = "}" THEN [val |-> acc, next |-> i + 1]
    ELSE LET e == ParseValue(toks, i + 1)
         IN  ParseMembers(toks, e.next, (toks[i].val :> e.val) @@ acc)

json_load(toks) == ParseValue(toks, 1).val

\* ------------------------------------------------- library-level operations
\* The functions called directly on one in-memory ProjectState, as the unit
\* tests call them; call records the last call and the state it was given.
NoCall == [op |-> "none", session_id |-> "", result |-> <<>>,
           pre |-> DefaultState, at |-> 0, due |-> <<>>]

\* no hook process is logging and there is no session log
NoLog == [session_id |-> "", started |-> IsoFormat(0), events |-> <<>>]

LogAtRest ==
    /\ logFile = [kind |-> "missing", doc |-> NoLog]
    /\ tmpFile = [kind |-> "missing", doc |-> NoLog]
    /\ lock = 0
    /\ lpc = [p \in Loggers |-> "idle"]
    /\ ldata = [p \in Loggers |-> NoLog]
    /\ lcount = [p \in Loggers |-> 0]
    /\ logStart = logFile

InitAPI ==
    /\ now = 0
    /\ state = DefaultState
    /\ call = NoCall
    /\ results = <<>>
    /\ file = [kind |-> "missing", doc |-> NoDoc]
    /\ quizFiles = {}
    /\ pc = [p \in Procs |-> "idle"]
    /\ cmd = [p \in Procs |-> "none"]
    /\ pstate = [p \in Procs |-> DefaultState]
    /\ sess = [p \in Procs |-> "unknown"]
    /\ raced = [p \in Procs |-> FALSE]
    /\ durable = NoDoc
    /\ lastSave = NoSave
    /\ missed = [p \in Procs |-> {}]
    /\ LogAtRest

Tick ==
    /\ now + TickHours <= MaxTime
    /\ now' = now + TickHours
    /\ UNCHANGED <<apiVars, cliVars, logVars>>

ApiAdd ==
    \E sid \in SessionIds, ty \in ApiTypes :
        /\ Len(state.pending_quizzes) < MaxPending
        /\ state' = add_pending_quiz(state, schedule_quiz(sid, ty, SummaryPath(sid), now))
        /\ call' = [op |-> "add", session_id |-> sid, result |-> <<>>,
                    pre |-> state, at |-> now, due |-> <<>>]
        /\ UNCHANGED <<now, results, cliVars, logVars>>

ApiMark ==
    \E sid \in SessionIds, res \in ApiResults :
        /\ Len(state.completed_quizzes) < MaxCompleted
        /\ state' = mark_quiz_completed(state, sid, res, now)
        /\ call' = [op |-> "mark", session_id |-> sid, result |-> res,
                    pre |-> state, at |-> now, due |-> <<>>]
        /\ UNCHANGED <<now, results, cliVars, logVars>>

ApiDue ==
    /\ call' = [op |-> "due", session_id |-> "", result |-> <<>>,
                pre |-> state, at |-> now, due |-> get_due_quizzes(state, now)]
    /\ UNCHANGED <<now, state, results, cliVars, logVars>>

\* one result is merged here; repeated merges are in NextScores
ApiMerge ==
    \E doc \in ApiResultDocs :
        /\ "topic_scores" \notin DOMAIN state
        /\ state' = merge_result_into_state(state, doc)
        /\ call' = [op |-> "merge", session_id |-> "", result |-> doc,
                    pre |-> state, at |-> now, due |-> <<>>]
        /\ results' = Append(results, doc)
        /\ UNCHANGED <<now, cliVars, logVars>>

NextAPI == Tick \/ ApiAdd \/ ApiMark \/ ApiDue \/ ApiMerge

SpecAPI == InitAPI /\ [][NextAPI]_vars

\* The aggregation functions of results_tracker.py on one ProjectState, with
\* the two lifecycle operations and a save and load of the state in between.
ScoreMerge ==
    \E doc \in ScoreDocs :
        /\ Len(results) < MaxResults
        /\ state' = merge_result_into_state(state, doc)
        /\ results' = Append(results, doc)
        /\ call' = [op |-> "merge", session_id |-> "", result |-> doc,
                    pre |-> state, at |-> now, due |-> <<>>]
        /\ UNCHANGED <<now, cliVars, logVars>>

ScoreCalc ==
    /\ call' = [op |-> "scores", session_id |-> "", result |-> <<>>,
                pre |-> state, at |-> now, due |-> <<>>,
                scores |-> calculate_topic_scores(results)]
    /\ UNCHANGED <<now, state, results, cliVars, logVars>>

ScoreAdd ==
    /\ Len(state.pending_quizzes) < MaxOtherOps
    /\ state' = add_pending_quiz(state,
                    schedule_quiz("s1", "on_demand", SummaryPath("s1"), now))
    /\ call' = [op |-> "add", session_id |-> "s1", result |-> <<>>,
                pre |-> state, at |-> now, due |-> <<>>]
    /\ UNCHANGED <<now, results, cliVars, logVars>>

ScoreMark ==
    \E res \in ApiResults :
        /\ Len(state.completed_quizzes) < MaxOtherOps
        /\ state' = mark_quiz_completed(state, "s1", res, now)
        /\ call' = [op |-> "mark", session_id |-> "s1", result |-> res,
                    pre |-> state, at |-> now, due |-> <<>>]
        /\ UNCHANGED <<now, results, cliVars, logVars>>

\* save_quiz_state(p, state); state = load_quiz_state(p), no other writer
ScoreSaveLoad ==
    /\ state' = json_load(json_dump(state))
    /\ call' = [op |-> "save_load", session_id |-> "", result |-> <<>>,
                pre |-> state, at |-> now, due |-> <<>>]
    /\ UNCHANGED <<now, results, cliVars, logVars>>

NextScores == ScoreMerge \/ ScoreCalc \/ ScoreAdd \/ ScoreMark \/ ScoreSaveLoad

SpecScores == InitAPI /\ [][NextScores]_vars

\* schedule_quiz called at any hour of a week, under any configuration: one
\* call is made and recorded, then the clock moves on to the next hour.
SchedClock ==
    /\ now < MaxSchedHour
    /\ now' = now + 1
    /\ call' = NoCall
    /\ UNCHANGED <<state, results, cliVars, logVars>>

SchedQuiz ==
    \E sid \in SessionIds, ty \in ScheduleType, config \in Configs, minute \in Minutes :
        /\ sid = "s1"
        /\ call.op = "none"
        /\ call' = [op |-> "schedule", session_id |-> sid, result |-> <<>>,
                    pre |-> state, at |-> now, due |-> <<>>,
                    type |-> ty, config |-> config, minute |-> minute,
                    schedule |-> [schedule_quiz(sid, ty, SummaryPath(sid), now)
                                  EXCEPT !.scheduled_for =
                                             ScheduledWith(config, ty, now)],
                    minute_out |-> ScheduledMinute(ty, minute)]
        /\ UNCHANGED <<now, state, results, cliVars, logVars>>

\* a caller asks whether a session is worth a quiz
SchedEligible ==
    \E summary \in Summaries, config \in EligibilityConfigs :
        /\ call.op = "none"
        /\ call' = [op |-> "eligible", session_id |-> summary.session_id,
                    result |-> <<>>, pre |-> state, at |-> now, due |-> <<>>,
                    summary |-> summary, config |-> config,
                    eligible |-> should_schedule_quiz(summary, config)]
        /\ UNCHANGED <<now, state, results, cliVars, logVars>>

\* the persisted records the deserialization harness reads: a record
\* to_dict wrote, the same with its type string replaced, with created_at
\* removed, with type removed
PersistedRecords(t) ==
    LET written == {to_dict(schedule_quiz("s1", ty, SummaryPath("s1"), t)) :
                        ty \in ScheduleType}
    IN  written
        \cup {[d EXCEPT !.type = u] : d \in written, u \in UnknownTypes}
        \cup {[k \in DOMAIN d \ {"created_at"} |-> d[k]] : d \in written}
        \cup {[k \in DOMAIN d \ {"type"} |-> d[k]] : d \in written}

\* a caller deserializes a persisted schedule record, possibly later than it
\* was written
SchedFromDict ==
    \E written \in {0, now} : \E data \in PersistedRecords(written) :
        /\ call.op = "none"
        /\ call' = [op |-> "from_dict", session_id |-> "s1", result |-> <<>>,
                    pre |-> state, at |-> now, due |-> <<>>,
                    data |-> data, out |-> from_dict(data, now)]
        /\ UNCHANGED <<now, state, results, cliVars, logVars>>

NextSched == SchedClock \/ SchedQuiz \/ SchedEligible \/ SchedFromDict

SpecSched == InitAPI /\ [][NextSched]_vars

\* ------------------------------------------------------------- state store
\* The state file holds: nothing ("missing"), bytes that do not decode as text
\* ("binary"), text that is not JSON ("invalid"), the empty or partly written
\* text of a save in progress ("truncated"), or a JSON document ("json").
FileOf(kind, doc) == [kind |-> kind, doc |-> doc]

\* load_quiz_state: what a load of the file content f returns or raises.  Only
\* json.JSONDecodeError and IOError are caught: the UnicodeDecodeError of bytes
\* the locale's codec rejects is raised, and a codec that accepts every byte
\* yields text that is not JSON.
load_quiz_state(f) ==
    CASE f.kind = "json" -> {[raised |-> FALSE, st |-> f.doc]}
      [] f.kind = "binary" -> {[raised |-> TRUE, st |-> DefaultState],
                               [raised |-> FALSE, st |-> DefaultState]}
      [] OTHER -> {[raised |-> FALSE, st |-> DefaultState]}

CompletedOf(doc) ==
    IF IsObject(doc) /\ "completed_quizzes" \in DOMAIN doc
    THEN doc.completed_quizzes ELSE <<>>

PendingOf(doc) ==
    IF IsObject(doc) /\ "pending_quizzes" \in DOMAIN doc
    THEN doc.pending_quizzes ELSE <<>>

\* faulty variant: the saved document is merged with the pending quizzes the
\* file held before the save
SavedMerged(st, before) ==
    IF IsObject(st) /\ "pending_quizzes" \in DOMAIN st
       /\ IsObject(before) /\ "pending_quizzes" \in DOMAIN before
    THEN [st EXCEPT !.pending_quizzes =
             @ \o SelectSeq(before.pending_quizzes,
                            LAMBDA q : \A i \in 1..Len(st.pending_quizzes) :
                                           st.pending_quizzes[i] # q)]
    ELSE st

\* faulty variant: the saved document keeps only the completion records that
\* the file did not hold before the save
SavedWithoutHistory(st, before) ==
    IF IsObject(st) /\ "completed_quizzes" \in DOMAIN st
    THEN [st EXCEPT !.completed_quizzes =
             SelectSeq(@, LAMBDA r :
                 \A i \in 1..Len(CompletedOf(before)) :
                     CompletedOf(before)[i] # r)]
    ELSE st

\* save_quiz_state: json.dump(state, f) writes the caller's state dict, whatever
\* document the file held before the save opened it.
SavedDocument(st, before) == st

\* ----------------------------------------------- exceptions of the functions
\* get_due_quizzes: state.get on a non-dict, quiz["scheduled_for"] missing
GetDueRaises(st) ==
    \/ ~IsObject(st)
    \/ \E i \in 1..Len(GetPending(st)) :
          "scheduled_for" \notin DOMAIN GetPending(st)[i]

\* add_pending_quiz: state["pending_quizzes"]
AddRaises(st) == ~IsObject(st) \/ "pending_quizzes" \notin DOMAIN st

\* mark_quiz_completed: state["pending_quizzes"], state["completed_quizzes"]
MarkRaises(st) ==
    \/ ~IsObject(st)
    \/ "pending_quizzes" \notin DOMAIN st
    \/ "completed_quizzes" \notin DOMAIN st

\* scheduler list: state.get, then q['scheduled_for'] of every pending entry
ListRaises(st) == GetDueRaises(st)

\* ------------------------------------------------------------- invocations
\* An invocation is idle (not started, or returned 0), has exited with code 1,
\* has died of an unhandled exception, or is inside its load-to-save window.
Finished == {"idle", "exit1", "crashed"}
Window == {"quiz", "save_open", "save_write"}
AddTypes == {"same_day", "next_day", "weekly"}
RaceAddTypes == {"same_day"}
RaceAddSessions == {"s2"}
\* quiz_path.stem.split("-")[1] of "<YYYY>-<MM>-<DD>-<session>-quiz": the month
FallbackSessionId == "MM"

ResultOf(outcomes) ==
    [score |-> (Cardinality({i \in 1..Len(outcomes) : outcomes[i]}) * 100)
                   \div Len(outcomes),
     total |-> Len(outcomes)]

HasPending(doc, session_id) ==
    \E i \in 1..Len(PendingOf(doc)) : PendingOf(doc)[i].session_id = session_id

\* the invocation p starts command c and runs up to newpc
Proceed(p, c, newpc, newst, newsess) ==
    /\ pc[p] \in Finished
    /\ pc' = [pc EXCEPT ![p] = newpc]
    /\ cmd' = [cmd EXCEPT ![p] = IF newpc = "idle" THEN "none" ELSE c]
    /\ pstate' = [pstate EXCEPT ![p] = IF newpc \in Window THEN newst ELSE DefaultState]
    /\ sess' = [sess EXCEPT ![p] = IF newpc \in Window THEN newsess ELSE "unknown"]
    /\ missed' = [missed EXCEPT ![p] = {}]
    /\ raced' = [q \in Procs |->
                   IF newpc \in Window /\ \E r \in Procs \ {p} : pc[r] \in Window
                   THEN (q = p \/ pc[q] \in Window)
                   ELSE (q # p /\ raced[q])]
    /\ UNCHANGED <<now, apiVars, logVars, file, durable, lastSave>>

\* the invocation p leaves its window without a save
Leave(p, newpc) ==
    /\ pc' = [pc EXCEPT ![p] = newpc]
    /\ cmd' = [cmd EXCEPT ![p] = IF newpc = "idle" THEN "none" ELSE @]
    /\ pstate' = [pstate EXCEPT ![p] = DefaultState]
    /\ sess' = [sess EXCEPT ![p] = "unknown"]
    /\ missed' = [missed EXCEPT ![p] = {}]
    /\ raced' = [raced EXCEPT ![p] = FALSE]

\* faulty variant: check exits with code 1 when no quiz is due
CmdCheckExitsByDue(p) ==
    /\ \E out \in load_quiz_state(file) :
          Proceed(p, "check",
                  IF out.raised \/ GetDueRaises(out.st) THEN "crashed"
                  ELSE IF get_due_quizzes(out.st, now) = <<>> THEN "exit1"
                  ELSE "idle",
                  DefaultState, "unknown")
    /\ UNCHANGED quizFiles

\* scheduler.py check / notify, quiz-cli.py status: load, get_due_quizzes, print
CmdCheck(p) ==
    /\ \E out \in load_quiz_state(file) :
          Proceed(p, "check",
                  IF out.raised \/ GetDueRaises(out.st) THEN "crashed" ELSE "idle",
                  DefaultState, "unknown")
    /\ UNCHANGED quizFiles

\* scheduler.py list
CmdList(p) ==
    /\ \E out \in load_quiz_state(file) :
          Proceed(p, "list",
                  IF out.raised \/ ListRaises(out.st) THEN "crashed" ELSE "idle",
                  DefaultState, "unknown")
    /\ UNCHANGED quizFiles

\* scheduler.py add with an argument missing: exit 1 before any load
CmdAddUsage(p) ==
    /\ Proceed(p, "add", "exit1", DefaultState, "unknown")
    /\ UNCHANGED quizFiles

\* scheduler.py add: load, schedule_quiz, add_pending_quiz (save follows)
CmdAdd(p, sids, types, maxPending) ==
    /\ \E sid \in sids, ty \in types, out \in load_quiz_state(file) :
          IF out.raised \/ AddRaises(out.st)
          THEN Proceed(p, "add", "crashed", DefaultState, sid)
          ELSE /\ Len(out.st.pending_quizzes) < maxPending
               /\ Proceed(p, "add", "save_open",
                          add_pending_quiz(out.st,
                              schedule_quiz(sid, ty, SummaryPath(sid), now)),
                          sid)
    /\ UNCHANGED quizFiles

\* quiz-cli.py generate that ends before it loads the state: no summary or an
\* unreadable one (exit 1), no questions (return 0)
CmdGenerateNothing(p) ==
    /\ \E code \in {"idle", "exit1"} :
          Proceed(p, "generate", code, DefaultState, "unknown")
    /\ UNCHANGED quizFiles

\* quiz-cli.py generate: save_questions, load, schedule_quiz(ON_DEMAND),
\* add_pending_quiz (save follows)
CmdGenerate(p, maxPending) ==
    /\ \E sid \in LoadableSummaries, out \in load_quiz_state(file) :
          /\ quizFiles' = quizFiles \cup {sid}
          /\ IF out.raised \/ AddRaises(out.st)
             THEN Proceed(p, "generate", "crashed", DefaultState, sid)
             ELSE /\ Len(out.st.pending_quizzes) < maxPending
                  /\ Proceed(p, "generate", "save_open",
                             add_pending_quiz(out.st,
                                 schedule_quiz(sid, "on_demand", SummaryPath(sid), now)),
                             sid)

\* quiz-cli.py run up to run_interactive_quiz: load, get_due_quizzes, the quiz
\* file of the first due quiz (generated from its summary when missing) or
\* else the latest quiz file
CmdRun(p, maxCompleted) ==
    /\ \E out \in load_quiz_state(file) :
          IF out.raised \/ GetDueRaises(out.st)
          THEN /\ Proceed(p, "run", "crashed", DefaultState, "unknown")
               /\ UNCHANGED quizFiles
          ELSE LET due == get_due_quizzes(out.st, now)
                   quiz_info == due[1]
                   session_id == IF due # <<>> THEN quiz_info.session_id
                                 ELSE IF quizFiles # {} THEN FallbackSessionId
                                 ELSE "unknown"
                   generated ==
                       IF due # <<>> /\ quiz_info.session_id \notin quizFiles
                          /\ quiz_info.summary_path[2] \in LoadableSummaries
                       THEN {quiz_info.session_id} ELSE {}
                   exists == IF due # <<>>
                             THEN quiz_info.session_id \in quizFiles \cup generated
                             ELSE quizFiles # {}
               IN  /\ quizFiles' = quizFiles \cup generated
                   /\ IF exists
                      THEN /\ Len(CompletedOf(out.st)) < maxCompleted
                           /\ Proceed(p, "run", "quiz", out.st, session_id)
                      ELSE Proceed(p, "run", "exit1", DefaultState, session_id)

\* quiz-cli.py run after run_interactive_quiz returned: with results,
\* mark_quiz_completed (save follows); without, return 0
Quiz(p) ==
    /\ pc[p] = "quiz"
    /\ \E outcomes \in QuizOutcomes :
          IF outcomes = <<>> THEN Leave(p, "idle")
          ELSE IF MarkRaises(pstate[p]) THEN Leave(p, "crashed")
          ELSE /\ pc' = [pc EXCEPT ![p] = "save_open"]
               /\ pstate' = [pstate EXCEPT ![p] =
                      mark_quiz_completed(@, sess[p], ResultOf(outcomes), now)]
               /\ UNCHANGED <<cmd, sess, missed, raced>>
    /\ UNCHANGED <<now, apiVars, logVars, file, quizFiles, durable, lastSave>>

\* save_quiz_state, open(state_file, "w"): the file is truncated
SaveOpen(p) ==
    /\ pc[p] = "save_open"
    /\ file' = FileOf("truncated", NoDoc)
    /\ pc' = [pc EXCEPT ![p] = "save_write"]
    /\ UNCHANGED <<now, apiVars, logVars, quizFiles, cmd, pstate, sess, raced, durable,
                   lastSave, missed>>

\* save_quiz_state, json.dump and close: the document is in the file.  missed
\* keeps, for the saver, the sessions whose quiz another invocation added and
\* saved inside the saver's window; for every other invocation in its window,
\* it gains the session this save adds.
SaveWrite(p) ==
    /\ pc[p] = "save_write"
    /\ file' = FileOf("json", SavedDocument(pstate[p], durable))
    /\ pc' = [pc EXCEPT ![p] = "idle"]
    /\ cmd' = [cmd EXCEPT ![p] = "none"]
    /\ pstate' = [pstate EXCEPT ![p] = DefaultState]
    /\ sess' = [sess EXCEPT ![p] = "unknown"]
    /\ raced' = [raced EXCEPT ![p] = FALSE]
    /\ durable' = file'.doc
    /\ lastSave' = [by |-> p, cmd |-> cmd[p], raced |-> raced[p]]
    /\ missed' = [q \in Procs |->
                    IF q = p THEN missed[p]
                    ELSE IF pc[q] \notin Window THEN {}
                    ELSE IF cmd[p] \in {"add", "generate"}
                            /\ ~HasPending(pstate[q], sess[p])
                         THEN missed[q] \cup {sess[p]}
                         ELSE missed[q]]
    /\ UNCHANGED <<now, apiVars, logVars, quizFiles>>

\* the state files a project may start with
InitFiles ==
    {FileOf("missing", NoDoc), FileOf("binary", NoDoc), FileOf("invalid", NoDoc),
     FileOf("json", NonObject),
     FileOf("json", [project |-> "proj", sessions |-> <<>>,
                     completed_quizzes |-> <<>>]),
     FileOf("json", [project |-> "proj", sessions |-> <<>>,
                     pending_quizzes |-> <<>>]),
     FileOf("json", [project |-> "proj", sessions |-> <<>>,
                     pending_quizzes |-> <<[session_id |-> "s1", type |-> "on_demand",
                                            summary_path |-> SummaryPath("s1")]>>,
                     completed_quizzes |-> <<>>])}

\* One invocation at a time, on any state file.
Init ==
    /\ now = 0
    /\ state = DefaultState
    /\ call = NoCall
    /\ results = <<>>
    /\ file \in InitFiles
    /\ quizFiles = {}
    /\ pc = [p \in Procs |-> "idle"]
    /\ cmd = [p \in Procs |-> "none"]
    /\ pstate = [p \in Procs |-> DefaultState]
    /\ sess = [p \in Procs |-> "unknown"]
    /\ raced = [p \in Procs |-> FALSE]
    /\ durable = IF file.kind = "json" THEN file.doc ELSE NoDoc
    /\ lastSave = NoSave
    /\ missed = [p \in Procs |-> {}]
    /\ LogAtRest

Next ==
    \/ Tick
    \/ CmdCheck(1)
    \/ CmdList(1)
    \/ CmdAddUsage(1)
    \/ CmdAdd(1, SessionIds, AddTypes, MaxCliPending)
    \/ CmdGenerateNothing(1)
    \/ CmdGenerate(1, MaxCliPending)
    \/ CmdRun(1, MaxCompleted)
    \/ Quiz(1)
    \/ SaveOpen(1)
    \/ SaveWrite(1)

Spec == Init /\ [][Next]_vars

\* Invocations that overlap, on a project that starts with no state file.
InitRace ==
    /\ now = 0
    /\ state = DefaultState
    /\ call = NoCall
    /\ results = <<>>
    /\ file = FileOf("missing", NoDoc)
    /\ quizFiles = {}
    /\ pc = [p \in Procs |-> "idle"]
    /\ cmd = [p \in Procs |-> "none"]
    /\ pstate = [p \in Procs |-> DefaultState]
    /\ sess = [p \in Procs |-> "unknown"]
    /\ raced = [p \in Procs |-> FALSE]
    /\ durable = NoDoc
    /\ lastSave = NoSave
    /\ missed = [p \in Procs |-> {}]
    /\ LogAtRest

NextRace ==
    \E p \in Procs :
        \/ CmdCheck(p)
        \/ CmdAdd(p, RaceAddSessions, RaceAddTypes, MaxRacePending)
        \/ CmdGenerate(p, MaxRacePending)
        \/ CmdRun(p, MaxRaceCompleted)
        \/ Quiz(p)
        \/ SaveOpen(p)
        \/ SaveWrite(p)

SpecRace == InitRace /\ [][NextRace]_vars

\* ------------------------------------------------------- repeated runs
\* run_interactive_quiz returns outcomes: the user answers the quiz
QuizAnswered(p) ==
    /\ pc[p] = "quiz"
    /\ \E outcomes \in QuizOutcomes \ {<<>>} :
          IF MarkRaises(pstate[p]) THEN Leave(p, "crashed")
          ELSE /\ pc' = [pc EXCEPT ![p] = "save_open"]
               /\ pstate' = [pstate EXCEPT ![p] =
                      mark_quiz_completed(@, sess[p], ResultOf(outcomes), now)]
               /\ UNCHANGED <<cmd, sess, missed, raced>>
    /\ UNCHANGED <<now, apiVars, logVars, file, quizFiles, durable, lastSave>>

\* the pending entries the commands have written at hour 0: generate for s1,
\* add for either session
ProgressEntries ==
    {to_dict(schedule_quiz("s1", "on_demand", SummaryPath("s1"), 0))}
    \cup {to_dict(schedule_quiz(sid, "same_day", SummaryPath(sid), 0)) :
              sid \in SessionIds}

ProgressPending ==
    UNION {[1..n -> ProgressEntries] : n \in 0..MaxProgressPending}

\* A project with pending quizzes and no quiz file of today.
InitProgress ==
    /\ now = 0
    /\ state = DefaultState
    /\ call = NoCall
    /\ results = <<>>
    /\ \E pending \in ProgressPending :
          file = FileOf("json", [DefaultState EXCEPT !.pending_quizzes = pending])
    /\ quizFiles = {}
    /\ pc = [p \in Procs |-> "idle"]
    /\ cmd = [p \in Procs |-> "none"]
    /\ pstate = [p \in Procs |-> DefaultState]
    /\ sess = [p \in Procs |-> "unknown"]
    /\ raced = [p \in Procs |-> FALSE]
    /\ durable = file.doc
    /\ lastSave = NoSave
    /\ missed = [p \in Procs |-> {}]
    /\ LogAtRest

\* run is the only command, one invocation at a time
NextProgress ==
    \/ Tick
    \/ CmdRun(1, MaxProgressCompleted)
    \/ QuizAnswered(1)
    \/ SaveOpen(1)
    \/ SaveWrite(1)

\* run is invoked again and again, a started quiz is answered and a started
\* save completes
SpecProgress ==
    /\ InitProgress
    /\ [][NextProgress]_vars
    /\ WF_vars(CmdRun(1, MaxProgressCompleted))
    /\ WF_vars(QuizAnswered(1))
    /\ WF_vars(SaveOpen(1))
    /\ WF_vars(SaveWrite(1))

\* ------------------------------------------------------------ activity log
\* The hook processes of activity_collector.py append events to one session
\* log.  The event a process logs in its k-th call:
EventOf(p, k) == [session_id |-> "s1", by |-> p, n |-> k]

\* the session logs a hook process may find: none, or one a former process
\* wrote
LogInitFiles ==
    {FileOf("missing", NoLog),
     FileOf("json", [session_id |-> "s1", started |-> IsoFormat(0),
                     events |-> <<EventOf(0, 1)>>, updated |-> IsoFormat(0)])}

\* data["events"].append(event); data["updated"] = now
Appended(data, event, t) ==
    [k \in DOMAIN data \cup {"updated"} |->
        IF k = "events" THEN Append(data.events, event)
        ELSE IF k = "updated" THEN IsoFormat(t)
        ELSE data[k]]

LogStep(p, newpc) ==
    /\ lpc' = [lpc EXCEPT ![p] = newpc]
    /\ UNCHANGED <<now, apiVars, cliVars, logStart>>

\* log_activity up to the flock call: mkdir, open(lock_path, "w")
LogCall(p) ==
    /\ lpc[p] = "idle"
    /\ lcount[p] < MaxLogCalls
    /\ LogStep(p, "flock")
    /\ UNCHANGED <<logFile, tmpFile, lock, ldata, lcount>>

\* faulty variant: the lock is granted while another process holds it
LogFlockShared(p) ==
    /\ lpc[p] = "flock"
    /\ lock' = p
    /\ LogStep(p, "read")
    /\ UNCHANGED <<logFile, tmpFile, ldata, lcount>>

\* fcntl.flock(LOCK_EX) returns: no other process holds the lock
LogFlock(p) ==
    /\ lpc[p] = "flock"
    /\ lock = 0
    /\ lock' = p
    /\ LogStep(p, "read")
    /\ UNCHANGED <<logFile, tmpFile, ldata, lcount>>

\* the existing log is loaded, or a new document made, and the event appended;
\* json.load raises on a log that is not a complete document
LogRead(p) ==
    /\ lpc[p] = "read"
    /\ IF logFile.kind = "json"
       THEN /\ ldata' = [ldata EXCEPT ![p] =
                            Appended(logFile.doc, EventOf(p, lcount[p] + 1), now)]
            /\ LogStep(p, "open_tmp")
       ELSE IF logFile.kind = "missing"
       THEN /\ ldata' = [ldata EXCEPT ![p] =
                            Appended([session_id |-> EventOf(p, lcount[p] + 1).session_id,
                                      started |-> IsoFormat(now), events |-> <<>>],
                                     EventOf(p, lcount[p] + 1), now)]
            /\ LogStep(p, "open_tmp")
       ELSE /\ LogStep(p, "unlock_raised")
            /\ UNCHANGED ldata
    /\ UNCHANGED <<logFile, tmpFile, lock, lcount>>

\* open(temp_path, "w")
LogOpenTmp(p) ==
    /\ lpc[p] = "open_tmp"
    /\ tmpFile' = FileOf("truncated", NoLog)
    /\ LogStep(p, "dump_tmp")
    /\ UNCHANGED <<logFile, lock, ldata, lcount>>

\* json.dump(data, f) and close
LogDumpTmp(p) ==
    /\ lpc[p] = "dump_tmp"
    /\ tmpFile' = FileOf("json", ldata[p])
    /\ LogStep(p, "replace")
    /\ UNCHANGED <<logFile, lock, ldata, lcount>>

\* temp_path.replace(log_path): the rename is atomic, and raises when the
\* temporary file is gone
LogReplace(p) ==
    /\ lpc[p] = "replace"
    /\ IF tmpFile.kind = "missing"
       THEN /\ LogStep(p, "unlock_raised")
            /\ UNCHANGED <<logFile, tmpFile, lcount>>
       ELSE /\ logFile' = tmpFile
            /\ tmpFile' = FileOf("missing", NoLog)
            /\ lcount' = [lcount EXCEPT ![p] = @ + 1]
            /\ LogStep(p, "unlock")
    /\ UNCHANGED <<lock, ldata>>

\* finally: fcntl.flock(LOCK_UN), then the lock file is closed
LogUnlock(p) ==
    /\ lpc[p] \in {"unlock", "unlock_raised"}
    /\ lock' = IF lock = p THEN 0 ELSE lock
    /\ ldata' = [ldata EXCEPT ![p] = NoLog]
    /\ LogStep(p, IF lpc[p] = "unlock" THEN "idle" ELSE "crashed")
    /\ UNCHANGED <<logFile, tmpFile, lcount>>

InitLog ==
    /\ now = 0
    /\ state = DefaultState
    /\ call = NoCall
    /\ results = <<>>
    /\ file = FileOf("missing", NoDoc)
    /\ quizFiles = {}
    /\ pc = [p \in Procs |-> "idle"]
    /\ cmd = [p \in Procs |-> "none"]
    /\ pstate = [p \in Procs |-> DefaultState]
    /\ sess = [p \in Procs |-> "unknown"]
    /\ raced = [p \in Procs |-> FALSE]
    /\ durable = NoDoc
    /\ lastSave = NoSave
    /\ missed = [p \in Procs |-> {}]
    /\ logFile \in LogInitFiles
    /\ tmpFile = FileOf("missing", NoLog)
    /\ lock = 0
    /\ lpc = [p \in Loggers |-> "idle"]
    /\ ldata = [p \in Loggers |-> NoLog]
    /\ lcount = [p \in Loggers |-> 0]
    /\ logStart = logFile

NextLog ==
    \/ Tick
    \/ \E p \in Loggers :
          \/ LogCall(p)
          \/ LogFlock(p)
          \/ LogRead(p)
          \/ LogOpenTmp(p)
          \/ LogDumpTmp(p)
          \/ LogReplace(p)
          \/ LogUnlock(p)

SpecLog == InitLog /\ [][NextLog]_vars

\* ------------------------------------------------- library-level properties
\* The entries of seq at the indices in keep, in index order, are exactly sub.
IsSelection(sub, seq, keep) ==
    /\ Len(sub) = Cardinality(keep)
    /\ \A i \in keep : sub[Cardinality({k \in keep : k <= i})] = seq[i]

IsPrefix(a, b) ==
    /\ Len(a) <= Len(b)
    /\ \A i \in 1..Len(a) : b[i] = a[i]

\* C1: mark_quiz_completed(state, sid, result) removes every pending entry of
\* sid, keeps the other pending entries in their order, and appends exactly
\* one record {session_id: sid, completed_at: now, result} to the end of
\* completed_quizzes, whatever sid is (pending once, several times, never).
C1_MarkCompleted ==
    call.op = "mark" =>
        LET P == call.pre.pending_quizzes
            C == call.pre.completed_quizzes
            others == {i \in 1..Len(P) : P[i].session_id # call.session_id}
        IN  /\ \A j \in 1..Len(state.pending_quizzes) :
                   state.pending_quizzes[j].session_id # call.session_id
            /\ IsSelection(state.pending_quizzes, P, others)
            /\ Len(state.completed_quizzes) = Len(C) + 1
            /\ IsPrefix(C, state.completed_quizzes)
            /\ state.completed_quizzes[Len(C) + 1] =
                   [session_id |-> call.session_id,
                    completed_at |-> IsoFormat(call.at),
                    result |-> call.result]

\* mark_quiz_completed has just removed a session that was pending twice and
\* kept another entry.
C1_Witness ==
    /\ call.op = "mark"
    /\ Cardinality({i \in 1..Len(call.pre.pending_quizzes) :
           call.pre.pending_quizzes[i].session_id = call.session_id}) = 2
    /\ Len(state.pending_quizzes) = 1
    /\ Len(state.completed_quizzes) = 2

\* C3: get_due_quizzes(state) returns exactly the pending entries whose
\* scheduled_for <= now, in the order they have in pending_quizzes; an entry
\* scheduled for exactly now is included, none scheduled later is.
C3_DueIsSubsequence ==
    call.op = "due" =>
        LET P == call.pre.pending_quizzes
            elapsed == {i \in 1..Len(P) :
                           P[i].scheduled_for.date * HoursPerDay
                               + P[i].scheduled_for.hour <= call.at}
        IN  IsSelection(call.due, P, elapsed)

\* get_due_quizzes has returned two entries, one of them scheduled for exactly
\* now, around an entry it left out because it is scheduled later.
C3_Witness ==
    /\ call.op = "due"
    /\ Len(call.pre.pending_quizzes) = 3
    /\ Len(call.due) = 2
    /\ call.due[1] = call.pre.pending_quizzes[1]
    /\ call.due[2] = call.pre.pending_quizzes[3]
    /\ \E j \in 1..2 : call.due[j].scheduled_for = IsoFormat(call.at)
    /\ \E j \in 1..2 : call.due[j].scheduled_for # IsoFormat(call.at)

\* C5: within one process completed_quizzes is append-only: the list before
\* add_pending_quiz, mark_quiz_completed or merge_result_into_state is a
\* prefix of the list after it.
C5_CompletedAppendOnly ==
    call.op \in {"add", "mark", "merge"} =>
        IsPrefix(call.pre.completed_quizzes, state.completed_quizzes)

\* mark_quiz_completed has just been applied to a state that already held a
\* completion record, after a merge had created topic_scores.
C5_Witness ==
    /\ call.op = "mark"
    /\ Len(call.pre.completed_quizzes) = 1
    /\ "topic_scores" \in DOMAIN state
    /\ Len(state.pending_quizzes) > 0

\* C11: round trip: load_quiz_state after save_quiz_state of a valid state,
\* with no other writer in between, returns a state equal to the saved one
\* field for field.
C11_SaveLoadRoundTrip ==
    call.op = "save_load" => state = call.pre

\* A state with a pending quiz, a completion record and topic_scores has been
\* saved and loaded.
C11_Witness ==
    /\ call.op = "save_load"
    /\ Len(call.pre.pending_quizzes) > 0
    /\ Len(call.pre.completed_quizzes) > 0
    /\ "topic_scores" \in DOMAIN call.pre
    /\ DOMAIN call.pre.topic_scores # {}
    /\ Len(json_dump(call.pre)) > Len(DumpCore(call.pre)) + 1

\* ---------------------------------------------------- lifecycle properties
Contains(seq, x) == \E i \in 1..Len(seq) : seq[i] = x

IsDue(quiz, t) == FromIsoFormat(quiz.scheduled_for) <= t

\* C15: there is no expiry or cancellation: a pending entry leaves
\* pending_quizzes only in a mark_quiz_completed call for its session_id, and
\* an entry that is due and still pending is returned by get_due_quizzes at
\* every later time.
C15_NoExpiry ==
    [][\A i \in 1..Len(state.pending_quizzes) :
           LET quiz == state.pending_quizzes[i]
           IN  IF Contains(state'.pending_quizzes, quiz)
               THEN IsDue(quiz, now) => Contains(get_due_quizzes(state', now'), quiz)
               ELSE /\ call'.op = "mark"
                    /\ call'.session_id = quiz.session_id]_vars

\* A quiz that was due at hour 0 has stayed pending through the completion of
\* another session and a step of the clock, and the check has returned it.
C15_Witness ==
    /\ call.op = "due"
    /\ now > 0
    /\ Len(state.completed_quizzes) > 0
    /\ \E i \in 1..Len(call.due) :
           /\ call.due[i].scheduled_for = IsoFormat(0)
           /\ call.due[i].session_id # state.completed_quizzes[1].session_id

\* C16: no operation changes an entry that is in pending_quizzes:
\* add_pending_quiz appends one entry behind the unchanged old ones,
\* mark_quiz_completed only removes entries, and the other operations leave
\* the list as it is.
C16_PendingEntriesImmutable ==
    LET P == call.pre.pending_quizzes
    IN  /\ call.op = "add" =>
               /\ Len(state.pending_quizzes) = Len(P) + 1
               /\ IsPrefix(P, state.pending_quizzes)
        /\ call.op = "mark" =>
               IsSelection(state.pending_quizzes, P,
                           {i \in 1..Len(P) : P[i].session_id # call.session_id})
        /\ call.op \in {"merge", "due"} => state.pending_quizzes = P

\* A second quiz has been added for a session that is already pending with
\* another scheduled_for, and the older entry is still as it was.
C16_Witness ==
    /\ call.op = "add"
    /\ Len(call.pre.pending_quizzes) > 0
    /\ call.pre.pending_quizzes[1].session_id = call.session_id
    /\ state.pending_quizzes[Len(state.pending_quizzes)].scheduled_for
           # call.pre.pending_quizzes[1].scheduled_for
    /\ state.pending_quizzes[1] = call.pre.pending_quizzes[1]

OnDemandDistinct(P) ==
    /\ \A i \in 1..Len(P) : P[i].type = "on_demand"
    /\ \A i, j \in 1..Len(P) : i # j => P[i].session_id # P[j].session_id

\* C17: an on-demand quiz has scheduled_for equal to its creation time and is
\* returned by every check from then on; after n on-demand quizzes with
\* distinct session_ids are added to an empty state the check returns all n,
\* and after mark_quiz_completed on one of them it returns n-1 and
\* completed_quizzes has exactly 1 record.
C17_OnDemandImmediatelyDue ==
    /\ \A i \in 1..Len(state.pending_quizzes) :
           state.pending_quizzes[i].type = "on_demand" =>
               /\ state.pending_quizzes[i].scheduled_for
                      = state.pending_quizzes[i].created_at
               /\ Contains(get_due_quizzes(state, now), state.pending_quizzes[i])
    /\ (call.op = "due" /\ OnDemandDistinct(call.pre.pending_quizzes)) =>
           call.due = call.pre.pending_quizzes
    /\ (call.op = "mark" /\ OnDemandDistinct(call.pre.pending_quizzes)
           /\ call.pre.completed_quizzes = <<>>
           /\ \E i \in 1..Len(call.pre.pending_quizzes) :
                  call.pre.pending_quizzes[i].session_id = call.session_id) =>
           /\ Len(get_due_quizzes(state, now)) = Len(call.pre.pending_quizzes) - 1
           /\ Len(state.completed_quizzes) = 1

\* Two on-demand quizzes of different sessions were pending, one has been
\* marked completed, and the other is the one quiz still due.
C17_Witness ==
    /\ call.op = "mark"
    /\ Len(call.pre.pending_quizzes) = 2
    /\ OnDemandDistinct(call.pre.pending_quizzes)
    /\ call.pre.completed_quizzes = <<>>
    /\ Len(state.pending_quizzes) = 1
    /\ Len(get_due_quizzes(state, now)) = 1
    /\ Len(state.completed_quizzes) = 1

\* ---------------------------------------------------- scheduling properties
DateOf(t) == t \div HoursPerDay

HourOf(t) == t % HoursPerDay

\* C18: for every creation time and every weekly_day in 0..6, a weekly quiz
\* is scheduled on weekday weekly_day at 09:00, between 1 and 7 days after
\* the day of creation: 7 days ahead when today is the target weekday.
C18_WeeklyNextOccurrence ==
    (call.op = "schedule" /\ call.type = "weekly") =>
        LET weekly_day == ConfigGet(call.config, "weekly_day", WeeklyDay)
            days == DateOf(call.schedule.scheduled_for) - DateOf(call.at)
        IN  /\ Weekday(call.schedule.scheduled_for) = weekly_day
            /\ HourOf(call.schedule.scheduled_for) = 9
            /\ call.minute_out = 0
            /\ 0 < days /\ days <= 7
            /\ Weekday(call.at) = weekly_day => days = 7

\* A weekly quiz for Sunday has been created on a Sunday at half past an hour
\* and is scheduled seven days ahead.
C18_Witness ==
    /\ call.op = "schedule"
    /\ call.type = "weekly"
    /\ call.config = [weekly_day |-> 6]
    /\ Weekday(call.at) = 6
    /\ call.minute = 30
    /\ DateOf(call.schedule.scheduled_for) = DateOf(call.at) + 7

C20_SameDaySameDate ==
    (call.op = "schedule" /\ call.type = "same_day"
        /\ call.config = DEFAULT_CONFIG) =>
        DateOf(call.schedule.scheduled_for) = DateOf(call.at)

\* C21: should_schedule_quiz returns false exactly when the summary's
\* duration_minutes is below 15 or its stats.total_activities is below 5, a
\* missing value read as 0; a session of exactly 15 minutes and 5 activities
\* is eligible.
C21_EligibilityThresholds ==
    (call.op = "eligible") =>
        LET s == call.summary
            duration == IF "duration_minutes" \in DOMAIN s
                        THEN s.duration_minutes ELSE 0
            activities == IF "stats" \in DOMAIN s
                          THEN (IF "total_activities" \in DOMAIN s.stats
                                THEN s.stats.total_activities ELSE 0)
                          ELSE 0
        IN  /\ call.eligible = FALSE <=> (duration < 15 \/ activities < 5)
            /\ (duration = 15 /\ activities = 5) => call.eligible = TRUE

\* A session of exactly 15 minutes and 5 activities has been found eligible
\* under a configuration that does not name the thresholds.
C21_Witness ==
    /\ call.op = "eligible"
    /\ "min_session_minutes" \notin DOMAIN call.config
    /\ "duration_minutes" \in DOMAIN call.summary
    /\ call.summary.duration_minutes = 15
    /\ "stats" \in DOMAIN call.summary
    /\ "total_activities" \in DOMAIN call.summary.stats
    /\ call.summary.stats.total_activities = 5
    /\ call.eligible = TRUE

\* C22: deserializing a persisted schedule record whose type string is not
\* one of the four known values fails with an error: no schedule comes out
\* of it, on-demand or other.  A record with a known type deserializes to a
\* schedule of that type.
C22_UnknownTypeRejected ==
    (call.op = "from_dict" /\ "type" \in DOMAIN call.data) =>
        IF call.data.type \in {"same_day", "next_day", "weekly", "on_demand"}
        THEN /\ ~call.out.raised
             /\ call.out.schedule.schedule_type = call.data.type
        ELSE /\ call.out.raised
             /\ call.out.schedule = NoSchedule

\* A record whose type is "ON_DEMAND", not the value "on_demand", has been
\* deserialized and rejected with a ValueError.
C22_Witness ==
    /\ call.op = "from_dict"
    /\ "type" \in DOMAIN call.data
    /\ call.data.type = "ON_DEMAND"
    /\ call.out.raised
    /\ call.out.error = "ValueError"

\* ------------------------------------------------- aggregation properties
\* The number of times the questions name bucket k: once for each question of
\* type k and once for each occurrence of k among a question's tags, counting
\* only the questions whose correct flag is in flags.
Hits(questions, k, flags) ==
    LET tags(i) == QGet(questions[i], "tags", <<>>)
        counted == {i \in 1..Len(questions) :
                       QGet(questions[i], "correct", FALSE) \in flags}
    IN  Cardinality({i \in counted : QGet(questions[i], "type", "unknown") = k})
        + Cardinality(UNION {{<<i, j>> : j \in {n \in 1..Len(tags(i)) : tags(i)[n] = k}} :
                             i \in counted})

Named(questions) ==
    {QGet(questions[i], "type", "unknown") : i \in 1..Len(questions)}
    \cup UNION {{QGet(questions[i], "tags", <<>>)[j] :
                    j \in 1..Len(QGet(questions[i], "tags", <<>>))} :
                i \in 1..Len(questions)}

BucketOf(scores, k) ==
    IF k \in DOMAIN scores THEN scores[k] ELSE [correct |-> 0, total |-> 0]

\* C12: merge_result_into_state adds to total of a bucket 1 for each question
\* of that type and 1 for each tag occurrence of that name, adds the same to
\* correct for the correct questions only, creates a missing bucket (or a
\* missing topic_scores) from {correct: 0, total: 0}, and changes no bucket
\* that no question names.
C12_MergeCounts ==
    call.op = "merge" =>
        LET old == TopicScores(call.pre)
            Q == QGet(call.result, "questions", <<>>)
        IN  /\ "topic_scores" \in DOMAIN state
            /\ DOMAIN state.topic_scores = DOMAIN old \cup Named(Q)
            /\ \A k \in DOMAIN state.topic_scores :
                   /\ state.topic_scores[k].total
                          = BucketOf(old, k).total + Hits(Q, k, {TRUE, FALSE})
                   /\ state.topic_scores[k].correct
                          = BucketOf(old, k).correct + Hits(Q, k, {TRUE})

\* A result of two questions has been merged into a state that held one of
\* its buckets already: one bucket grew by 2, one was created, one that the
\* result does not name was left alone.
C12_Witness ==
    /\ call.op = "merge"
    /\ Len(QGet(call.result, "questions", <<>>)) = 2
    /\ "unknown" \in DOMAIN TopicScores(call.pre)
    /\ "concept" \notin DOMAIN TopicScores(call.pre)
    /\ "docker" \in DOMAIN TopicScores(call.pre)
    /\ state.topic_scores["docker"].total = TopicScores(call.pre)["docker"].total + 2
    /\ state.topic_scores["unknown"] = TopicScores(call.pre)["unknown"]

\* C13: calculate_topic_scores of a list of result documents equals the
\* topic_scores that merge_result_into_state builds when it is applied to
\* the results in list order from a state without scores.
C13_RecountEqualsMerge ==
    call.op = "scores" => call.scores = TopicScores(state)

\* The scores of three merged results, one of them with a question without
\* type, have been recomputed from the list.
C13_Witness ==
    /\ call.op = "scores"
    /\ Len(results) = 3
    /\ "unknown" \in DOMAIN call.scores
    /\ "concept" \in DOMAIN call.scores
    /\ call.scores["debugging"].total > call.scores["debugging"].correct

\* C14: topic_scores counters never decrease: add_pending_quiz,
\* mark_quiz_completed and merge_result_into_state leave correct and total of
\* every existing bucket at least as large as before and remove no bucket.
C14_ScoresMonotone ==
    call.op \in {"add", "mark", "merge"} =>
        \A k \in DOMAIN TopicScores(call.pre) :
            /\ k \in DOMAIN TopicScores(state)
            /\ TopicScores(state)[k].correct >= TopicScores(call.pre)[k].correct
            /\ TopicScores(state)[k].total >= TopicScores(call.pre)[k].total

\* A merge has raised the total of an existing bucket and kept another bucket
\* that its result does not name.
C14_Witness ==
    /\ call.op = "merge"
    /\ \E k \in DOMAIN TopicScores(call.pre) :
           state.topic_scores[k].total > TopicScores(call.pre)[k].total
    /\ \E k \in DOMAIN TopicScores(call.pre) :
           k \notin Named(QGet(call.result, "questions", <<>>))

\* every bucket has 0 <= correct <= total
WithinTotal(scores) ==
    \A k \in DOMAIN scores :
        0 <= scores[k].correct /\ scores[k].correct <= scores[k].total

\* C30: counter sanity: from a state whose buckets all have
\* 0 <= correct <= total, every sequence of merge_result_into_state calls
\* leads to a state whose buckets all have it, and calculate_topic_scores
\* returns only such buckets.
C30_CorrectWithinTotal ==
    /\ WithinTotal(TopicScores(call.pre)) => WithinTotal(TopicScores(state))
    /\ call.op = "scores" => WithinTotal(call.scores)

\* A merge into a state that had buckets has left one bucket with all its
\* answers correct and one with some of its answers correct.
C30_Witness ==
    /\ call.op = "merge"
    /\ DOMAIN TopicScores(call.pre) # {}
    /\ \E k \in DOMAIN TopicScores(state) :
           /\ TopicScores(state)[k].total > BucketOf(TopicScores(call.pre), k).total
           /\ TopicScores(state)[k].correct = TopicScores(state)[k].total
    /\ \E k \in DOMAIN TopicScores(state) :
           /\ 0 < TopicScores(state)[k].correct
           /\ TopicScores(state)[k].correct < TopicScores(state)[k].total

\* ------------------------------------------------- command-level properties
\* The session_ids of a list of records.
SessionsOf(seq) == {seq[i].session_id : i \in 1..Len(seq)}

NotJson == {"missing", "invalid", "binary", "truncated"}

\* C23: every schedule record a command adds belongs to a session whose
\* summary passes should_schedule_quiz: no persisted state holds a pending
\* quiz for a session that is not eligible.
C23_PendingOnlyEligible ==
    file.kind = "json" =>
        \A sid \in SessionsOf(PendingOf(file.doc)) :
            should_schedule_quiz(SessionSummary(sid), DEFAULT_CONFIG)

\* the topic_scores a persisted document holds
ScoresOf(doc) ==
    IF IsObject(doc) /\ "topic_scores" \in DOMAIN doc THEN doc.topic_scores ELSE <<>>

\* C24: when run has executed a due quiz that returned at least one outcome,
\* the state it persists has the session moved from pending_quizzes to
\* completed_quizzes and topic_scores grown by the merge of the outcomes:
\* some bucket's total is larger than before.
C24_RunMergesScores ==
    [][(pc[1] = "save_write" /\ cmd[1] = "run" /\ pc'[1] = "idle"
            /\ HasPending(durable, sess[1])) =>
        /\ file'.kind = "json"
        /\ ~HasPending(file'.doc, sess[1])
        /\ sess[1] \in SessionsOf(CompletedOf(file'.doc))
        /\ \E k \in DOMAIN ScoresOf(file'.doc) :
               ScoresOf(file'.doc)[k].total > BucketOf(ScoresOf(durable), k).total]_vars

\* a state file that holds no document, text that is not JSON, or a JSON
\* object whose pending entries all have their scheduled_for
ReadableState(f) ==
    \/ f.kind \in {"missing", "invalid", "truncated"}
    \/ /\ f.kind = "json"
       /\ IsObject(f.doc)
       /\ \A i \in 1..Len(PendingOf(f.doc)) :
              "scheduled_for" \in DOMAIN PendingOf(f.doc)[i]

\* C25: scheduler add with --session-id, --type or --summary missing exits
\* with code 1 and leaves the state file as it was, not created and not
\* modified; check never exits with a code of its own, whether or not
\* quizzes are due: on a readable state file it returns 0, and it ends
\* otherwise only by the exception of an unreadable one.
C25_UsageErrorAndCheckExit ==
    [][/\ (cmd'[1] = "add" /\ pc'[1] = "exit1") =>
              (file' = file /\ durable' = durable)
       /\ (cmd'[1] = "check") =>
              (pc'[1] = "crashed" /\ ~ReadableState(file'))]_vars

\* add has exited with code 1 on a project whose state file holds a pending
\* quiz that is due.
C25_Witness ==
    /\ cmd[1] = "add"
    /\ pc[1] = "exit1"
    /\ file.kind = "json"
    /\ ReadableState(file)
    /\ get_due_quizzes(file.doc, now) # <<>>

\* C26: each of check, add, list and status is idempotent: running it twice
\* with the same arguments leaves the persisted state as running it once
\* does.  The read-only commands never change the file; an add that repeats
\* the add before it, whose record is the last pending entry of the file,
\* saves the document the file already holds.
C26_CommandsIdempotent ==
    [][/\ (pc[1] \in Finished /\ pc'[1] \in Finished) => file' = file
       /\ (pc[1] = "save_write" /\ cmd[1] = "add" /\ pc'[1] = "idle"
              /\ PendingOf(durable) # <<>>
              /\ PendingOf(durable)[Len(PendingOf(durable))]
                     = pstate[1].pending_quizzes[Len(pstate[1].pending_quizzes)]) =>
              file'.doc = durable]_vars

\* C29: every completion record run appends names a session_id that was
\* pending and due in the state run loaded; a run that finds no quiz due and
\* falls back to the latest quiz file, or whose quiz returns no outcomes,
\* appends no record and leaves the state file as it was.
C29_RunCompletesOnlyDue ==
    [][(cmd[1] = "run" /\ file' # file) =>
          /\ pc[1] \in {"save_open", "save_write"}
          /\ \E i \in 1..Len(PendingOf(durable)) :
                 /\ PendingOf(durable)[i].session_id = sess[1]
                 /\ IsDue(PendingOf(durable)[i], now)]_vars

\* C2: Completed is terminal: a session_id that mark_quiz_completed has moved
\* to completed_quizzes is never in pending_quizzes afterwards, so no
\* session_id is in pending_quizzes and in completed_quizzes of one state.
C2_CompletedIsTerminal ==
    file.kind = "json" =>
        SessionsOf(PendingOf(file.doc))
            \cap SessionsOf(CompletedOf(file.doc)) = {}

\* C4: in every state reached from the default state through the commands,
\* pending_quizzes holds at most one entry per session_id.
C4_PendingUniqueBySession ==
    file.kind = "json" =>
        \A i, j \in 1..Len(PendingOf(file.doc)) :
            i # j => PendingOf(file.doc)[i].session_id
                         # PendingOf(file.doc)[j].session_id

\* C6, as stated: a completion record that a save has written to the state
\* file is in the document of the file after every later save, however the
\* invocations of the commands interleave.
C6_HistoryPermanent ==
    [][\A i \in 1..Len(CompletedOf(durable)) :
           \E j \in 1..Len(CompletedOf(durable')) :
               CompletedOf(durable')[j] = CompletedOf(durable)[i]]_vars

\* C6, amended: a save by an invocation whose load-to-save window overlapped
\* no other invocation's window writes a document whose completed_quizzes
\* extends the completed_quizzes the file held before the save.
C6_UnracedSaveKeepsHistory ==
    [][\A p \in Procs :
           (pc[p] = "save_write" /\ pc'[p] = "idle" /\ ~raced[p])
               => IsPrefix(CompletedOf(durable), CompletedOf(durable'))]_vars

\* The last save was made by an add that overlapped no other invocation, and
\* the file still holds the completion record it held before that add.
C6_Witness ==
    /\ lastSave.cmd = "add"
    /\ ~lastSave.raced
    /\ file.kind = "json"
    /\ Len(CompletedOf(file.doc)) = 1
    /\ Len(PendingOf(file.doc)) > 0

\* C7: saves are last-writer-wins: when two invocations both load before
\* either saves, the file after the later save holds no pending quiz that the
\* earlier saver added and the later saver had not loaded.
C7_LastWriterWins ==
    (file.kind = "json" /\ lastSave.by \in Procs) =>
        \A s \in missed[lastSave.by] : ~HasPending(file.doc, s)

\* An add and a generate for different sessions have overlapped and both have
\* returned, and the file holds the pending quiz of only one of them.
C7_Witness ==
    /\ lastSave.cmd \in {"add", "generate"}
    /\ lastSave.raced
    /\ missed[lastSave.by] # {}
    /\ \A p \in Procs : pc[p] = "idle"
    /\ file.kind = "json"
    /\ Len(PendingOf(file.doc)) = 1

\* C8: save_quiz_state is atomic: an invocation that loads the state file
\* while another invocation saves it reads the whole previous document or the
\* whole new one, never an empty or partly written file.
C8_LoadSeesWholeDocument ==
    [][\A p \in Procs :
           (pc[p] \in Finished /\ pc'[p] \in Window)
               => file.kind # "truncated"]_vars

\* C9: load_quiz_state never fails when the state file is missing or is not
\* valid JSON: the invocation goes on with the default state.
C9_LoadNeverFails ==
    file.kind \in NotJson =>
        /\ pc[1] # "crashed"
        /\ pc[1] = "quiz" => pstate[1] = DefaultState

\* C10: check, list, status, add, generate and run never die of an unhandled
\* exception, whatever JSON document the state file holds.
C10_NoUnhandledException ==
    file.kind = "json" => pc[1] # "crashed"

\* ------------------------------------------------------ activity log properties
\* the sequence has no entry twice
NoDuplicates(seq) == \A i, j \in 1..Len(seq) : seq[i] = seq[j] => i = j

\* the entries of seq after its first n
EventsAfter(seq, n) == [i \in 1..(Len(seq) - n) |-> seq[i + n]]

\* C27: for any number of processes that call log_activity concurrently on
\* one log file, the exclusive lock serializes read, append and replace: the
\* log file is at every moment absent or a complete JSON document, and its
\* events list is the events of the initial file followed by the events of
\* the calls that have replaced the file, each of them exactly once; so
\* when every call has returned, every logged event is there exactly once.
C27_LogSerialized ==
    LET start == logStart.doc.events
        logged == {EventOf(p, k) : p \in Loggers, k \in 1..MaxLogCalls}
        replaced == {e \in logged : e.n <= lcount[e.by]}
    IN  /\ logFile.kind \in {"missing", "json"}
        /\ \A p \in Loggers : lpc[p] # "crashed"
        /\ logFile.kind = "missing" => (logStart.kind = "missing" /\ replaced = {})
        /\ logFile.kind = "json" =>
              LET events == logFile.doc.events
              IN  /\ Len(events) >= Len(start)
                  /\ SubSeq(events, 1, Len(start)) = start
                  /\ NoDuplicates(EventsAfter(events, Len(start)))
                  /\ {EventsAfter(events, Len(start))[i] :
                         i \in 1..(Len(events) - Len(start))} = replaced

\* Every process has returned from its last call on a log that had an event
\* to begin with, after waiting for the lock in turn: the log holds the
\* initial event and all the others.
C27_Witness ==
    /\ \A p \in Loggers : lpc[p] = "idle" /\ lcount[p] = MaxLogCalls
    /\ logStart.kind = "json"
    /\ logFile.kind = "json"
    /\ Len(logFile.doc.events) = 1 + MaxLoggers * MaxLogCalls
    /\ logFile.doc.events[2].by # logFile.doc.events[3].by

\* ------------------------------------------------------ progress properties
\* run can produce the quiz of the session: its quiz file is there or its
\* summary loads and yields questions
Runnable(sid) == sid \in quizFiles \/ sid \in LoadableSummaries

DueInFile(sid) ==
    /\ file.kind = "json"
    /\ \E i \in 1..Len(PendingOf(file.doc)) :
          /\ PendingOf(file.doc)[i].session_id = sid
          /\ IsDue(PendingOf(file.doc)[i], now)

\* C28: when run is invoked repeatedly, with no concurrent writer and every
\* started quiz answered, every due quiz that run can produce is eventually
\* completed: a due quiz at the head of pending_quizzes whose summary does
\* not load, or yields no questions, does not block the ones behind it.
C28_RunProgress ==
    \A sid \in SessionIds :
        (Runnable(sid) /\ DueInFile(sid)) ~>
            (file.kind = "json" /\ sid \in SessionsOf(CompletedOf(file.doc)))
====
